---- MODULE Spec2Model ----
(***************************************************************************)
(* The impression tracking pipeline of adserver/views.py: the proxy views  *)
(* (BaseProxyView, AdViewProxyView, AdClickProxyView), their filter chain  *)
(* and the collaborators they call (nonce store, impression recorder,      *)
(* click rate limiter, analytics).                                         *)
(*                                                                         *)
(* Requests run concurrently.  One request is split at its accesses to     *)
(* shared state: GetCheck (lines 173-179: resolve the advertisement and    *)
(* the publisher, read the nonce and the rate limiter, decide), Invalidate *)
(* (line 183), Track (lines 184-196, with the response) and Return (the    *)
(* response leaves and the request is forgotten).  Return touches nothing  *)
(* shared and commutes with every other step, so a finished request        *)
(* returns before anything else happens: no interleaving of the shared     *)
(* accesses is lost.                                                       *)
(* Money is counted in mills (1/1000 of the currency unit) so that         *)
(* cpm/1000 is exact.                                                      *)
(***************************************************************************)
EXTENDS Integers, FiniteSets, Sequences, TLC

\* ---------------------------------------------------------------- bounds
MaxReqs == 2      \* tracking requests in one behaviour
MaxNonces == 1    \* nonces that can be issued
MaxDay == 1       \* calendar dates 0..MaxDay
MaxClicks == 2    \* cap of the click events counted per client
MaxRecorded == 3  \* impressions recorded before a report is built

\* ------------------------------------------------------------- constants
None == "None"
VIEWS == "views"
CLICKS == "clicks"
ImpressionTypes == {VIEWS, CLICKS}

AdViewProxyView == "AdViewProxyView"
AdClickProxyView == "AdClickProxyView"
ProxyViews == {AdViewProxyView, AdClickProxyView}

Reqs == 1..MaxReqs
Nonces == 1..MaxNonces
Dates == 0..MaxDay

\* The advertisements of the database; UnknownAd is an id that resolves to none.
Advertisements == {"ad1", "ad2"}
UnknownAd == "ad404"
AdIds == Advertisements \cup {UnknownAd}
Advertisement == [a \in Advertisements |->
                    IF a = "ad1"
                    THEN [link |-> "https://a.example/1", slug |-> "ad1-slug",
                          cpc |-> 2000, cpm |-> 3000]
                    ELSE [link |-> "https://a.example/2", slug |-> "ad2-slug",
                          cpc |-> 1505, cpm |-> 5000]]

Publishers == {"pubA", "pubB"}
INTERNAL_IPS == {"127.0.0.1"}
ClientIPs == {"127.0.0.1", "198.51.100.1", "198.51.100.2"}
\* The configured number of clicks per window a client may make.
ClickThreshold == 1

\* What parse_user_agent and is_blacklisted_user_agent say of a user agent.
UserAgents == [is_bot : BOOLEAN, os_other : BOOLEAN, browser_other : BOOLEAN,
               blacklisted : BOOLEAN]

\* The signals of one request: user agent, client IP, principal, geo targeting.
AllSignals == [ua : UserAgents, ip_address : ClientIPs, is_staff : BOOLEAN,
               geo_ok : BOOLEAN]
CleanSignals == [ua |-> [is_bot |-> FALSE, os_other |-> FALSE,
                         browser_other |-> FALSE, blacklisted |-> FALSE],
                 ip_address |-> "198.51.100.1", is_staff |-> FALSE,
                 geo_ok |-> TRUE]
\* The requests of the concurrent specification: no fault, each single fault,
\* a half-known user agent, and every fault at once.
SignalCases ==
    { CleanSignals,
      [CleanSignals EXCEPT !.ua.is_bot = TRUE],
      [CleanSignals EXCEPT !.ip_address = "127.0.0.1"],
      [CleanSignals EXCEPT !.ua.os_other = TRUE, !.ua.browser_other = TRUE],
      [CleanSignals EXCEPT !.ua.os_other = TRUE],
      [CleanSignals EXCEPT !.is_staff = TRUE],
      [CleanSignals EXCEPT !.ua.blacklisted = TRUE],
      [CleanSignals EXCEPT !.geo_ok = FALSE],
      [ua |-> [is_bot |-> TRUE, os_other |-> TRUE, browser_other |-> TRUE,
               blacklisted |-> TRUE],
       ip_address |-> "127.0.0.1", is_staff |-> TRUE, geo_ok |-> FALSE] }

\* With a second client, for the rate limiter.
SignalCasesRate ==
    SignalCases \cup {[CleanSignals EXCEPT !.ip_address = "198.51.100.2"]}

\* The requests of the retry specification: no fault, a bot, a geo mismatch.
SignalCasesRetry ==
    { CleanSignals,
      [CleanSignals EXCEPT !.ua.is_bot = TRUE],
      [CleanSignals EXCEPT !.geo_ok = FALSE] }

\* What a nonce can be issued for: an advertisement and the publisher showing it.
IssueCases == { [ad |-> "ad1", publisher |-> "pubA"],
                [ad |-> "ad2", publisher |-> "pubB"],
                [ad |-> "ad2", publisher |-> None] }

VARIABLES req, nonces, impressions, rate, today, events, billed, chain, report

vars == <<req, nonces, impressions, rate, today, events, billed, chain, report>>

\* ----------------------------------------------------------- nonce store
UNISSUED == "UNISSUED"
VALID == "VALID"
CONSUMED == "CONSUMED"
EXPIRED == "EXPIRED"

\* An entry of the store.  consumes counts the successful consume transitions.
NoNonce == [state |-> UNISSUED, ad |-> None, impression_type |-> None,
            publisher |-> None, consumes |-> 0]

\* isValid: the token exists, matches the (ad, type) pair, is unexpired and VALID.
is_valid_nonce(store, ad, impression_type, nonce) ==
    /\ store[nonce].state = VALID
    /\ store[nonce].ad = ad
    /\ store[nonce].impression_type = impression_type

\* consume: VALID -> CONSUMED as one atomic step; a no-op on a nonce that is
\* consumed, expired or unknown.  The consumed entry keeps no binding.
invalidate_nonce(store, ad, impression_type, nonce) ==
    IF is_valid_nonce(store, ad, impression_type, nonce)
    THEN [store EXCEPT ![nonce] = [NoNonce EXCEPT !.state = CONSUMED,
                                                  !.consumes = store[nonce].consumes + 1]]
    ELSE store

\* The publisher a nonce was issued for, when it can be resolved.
get_publisher(store, nonce) == store[nonce].publisher

\* ------------------------------------------------------ impression recorder
ImpressionKeys == Advertisements \X Publishers \X Dates
NoImpression == [views |-> 0, clicks |-> 0, cost |-> 0]

\* The flight's rate for one impression, in mills: cpc per click, cpm/1000 per view.
impression_cost(ad, impression_type) ==
    IF impression_type = CLICKS
    THEN Advertisement[ad].cpc
    ELSE Advertisement[ad].cpm \div 1000

\* record: one atomic increment of the (ad, publisher, date) counters.
track_impression(imps, ad, impression_type, publisher, date) ==
    LET key == <<ad, publisher, date>> IN
    [imps EXCEPT ![key] =
        [views  |-> @.views + (IF impression_type = VIEWS THEN 1 ELSE 0),
         clicks |-> @.clicks + (IF impression_type = CLICKS THEN 1 ELSE 0),
         cost   |-> @.cost + impression_cost(ad, impression_type)]]

\* ------------------------------------------------------------ rate limiter
\* isLimited: the count of the client's click events in the window exceeds
\* the threshold.
is_click_ratelimited(limiter, ip_address) == limiter[ip_address] > ClickThreshold

\* ------------------------------------------------------------- proxy views
\* Mutant: every view class counts views.
impression_type_of_views(view) == VIEWS

impression_type_of(view) == IF view = AdClickProxyView THEN CLICKS ELSE VIEWS

success_message(view) ==
    IF view = AdClickProxyView THEN "Billed click" ELSE "Billed view"

\* Mutant: the bot rule runs before the nonce rule.
ignore_tracking_reason_bot_first(view, valid_nonce, sig, publisher, ratelimited) ==
    IF sig.ua.is_bot THEN "Bot impression"
    ELSE IF ~valid_nonce THEN "Old/Nonexistent nonce"
    ELSE IF sig.ip_address \in INTERNAL_IPS THEN "Internal IP"
    ELSE IF sig.ua.os_other /\ sig.ua.browser_other THEN "Unrecognized user agent"
    ELSE IF sig.is_staff THEN "Staff impression"
    ELSE IF sig.ua.blacklisted THEN "Blacklisted impression"
    ELSE IF publisher = None THEN "Unknown publisher"
    ELSE IF ~sig.geo_ok THEN "Invalid targeting impression"
    ELSE IF impression_type_of(view) = CLICKS /\ ratelimited
         THEN "Ratelimited impression"
    ELSE None

\* Mutant: the staff rule and the blacklist rule change places.
ignore_tracking_reason_swapped(view, valid_nonce, sig, publisher, ratelimited) ==
    IF ~valid_nonce THEN "Old/Nonexistent nonce"
    ELSE IF sig.ua.is_bot THEN "Bot impression"
    ELSE IF sig.ip_address \in INTERNAL_IPS THEN "Internal IP"
    ELSE IF sig.ua.os_other /\ sig.ua.browser_other THEN "Unrecognized user agent"
    ELSE IF sig.ua.blacklisted THEN "Blacklisted impression"
    ELSE IF sig.is_staff THEN "Staff impression"
    ELSE IF publisher = None THEN "Unknown publisher"
    ELSE IF ~sig.geo_ok THEN "Invalid targeting impression"
    ELSE IF impression_type_of(view) = CLICKS /\ ratelimited
         THEN "Ratelimited impression"
    ELSE None

\* Mutant: the rate limit rule forgets that it is for clicks only.
ignore_tracking_reason_any_type(view, valid_nonce, sig, publisher, ratelimited) ==
    IF ~valid_nonce THEN "Old/Nonexistent nonce"
    ELSE IF sig.ua.is_bot THEN "Bot impression"
    ELSE IF sig.ip_address \in INTERNAL_IPS THEN "Internal IP"
    ELSE IF sig.ua.os_other /\ sig.ua.browser_other THEN "Unrecognized user agent"
    ELSE IF sig.is_staff THEN "Staff impression"
    ELSE IF sig.ua.blacklisted THEN "Blacklisted impression"
    ELSE IF publisher = None THEN "Unknown publisher"
    ELSE IF ~sig.geo_ok THEN "Invalid targeting impression"
    ELSE IF ratelimited THEN "Ratelimited impression"
    ELSE None

ignore_tracking_reason(view, valid_nonce, sig, publisher, ratelimited) ==
    IF ~valid_nonce THEN "Old/Nonexistent nonce"
    ELSE IF sig.ua.is_bot THEN "Bot impression"
    ELSE IF sig.ip_address \in INTERNAL_IPS THEN "Internal IP"
    ELSE IF sig.ua.os_other /\ sig.ua.browser_other THEN "Unrecognized user agent"
    ELSE IF sig.is_staff THEN "Staff impression"
    ELSE IF sig.ua.blacklisted THEN "Blacklisted impression"
    ELSE IF publisher = None THEN "Unknown publisher"
    ELSE IF ~sig.geo_ok THEN "Invalid targeting impression"
    ELSE IF impression_type_of(view) = CLICKS /\ ratelimited
         THEN "Ratelimited impression"
    ELSE None

\* Mutant: the impression is billed whatever the chain said.
is_billed_always(ignore_reason) == TRUE

\* `if not ignore_reason`: the impression is billed when the chain gave no reason.
is_billed(ignore_reason) == ignore_reason = None

NoHeader == "(no header)"
get_response(view, ad) ==
    IF view = AdClickProxyView
    THEN [status |-> 302, content |-> None, location |-> Advertisement[ad].link,
          reason_header |-> NoHeader]
    ELSE [status |-> 200, content |-> "<svg><!-- View Proxy --></svg>",
          location |-> None, reason_header |-> NoHeader]

\* Mutant: a rejected impression is answered with an error and no payload.
respond_reject_error(view, ad, ignore_reason, is_staff, is_debug) ==
    LET message == IF ignore_reason # None THEN ignore_reason ELSE success_message(view)
        response == IF ignore_reason # None
                    THEN [status |-> 400, content |-> None, location |-> None,
                          reason_header |-> NoHeader]
                    ELSE get_response(view, ad)
    IN  IF is_debug \/ is_staff
        THEN [response EXCEPT !.reason_header = message]
        ELSE response

\* Mutant: the header is attached in DEBUG/TESTING only, not for staff.
respond_debug_only(view, ad, ignore_reason, is_staff, is_debug) ==
    LET message == IF ignore_reason # None THEN ignore_reason ELSE success_message(view)
        response == get_response(view, ad)
    IN  IF is_debug
        THEN [response EXCEPT !.reason_header = message]
        ELSE response

\* Lines 188-196: the message, the response of the view class and the header.
respond(view, ad, ignore_reason, is_staff, is_debug) ==
    LET message == IF ignore_reason # None THEN ignore_reason ELSE success_message(view)
        response == get_response(view, ad)
    IN  IF is_debug \/ is_staff
        THEN [response EXCEPT !.reason_header = message]
        ELSE response

\* get_object_or_404 raised Http404.
NotFound == [status |-> 404, content |-> None, location |-> None,
             reason_header |-> NoHeader]
NoResponse == [status |-> 0, content |-> None, location |-> None,
               reason_header |-> NoHeader]

\* The analytics event of a click: the value is cpc x 100 in whole cents.
send_to_analytics(view, ad, message) ==
    IF view = AdClickProxyView
    THEN <<[category |-> "Advertisement", action |-> message,
            label |-> Advertisement[ad].slug,
            value |-> (Advertisement[ad].cpc * 100) \div 1000]>>
    ELSE <<>>

\* ------------------------------------------------------------------ state
\* late, calls and (per nonce) billed are history: whether the nonce was
\* already consumed when the request arrived, which collaborators the request
\* has called, and how many impressions were recorded for the nonce.  debug is
\* settings.DEBUG or settings.TESTING as line 193 read it.
NoRequest == [pc |-> "idle", view |-> None, ad |-> None, nonce |-> 0,
              publisher |-> None, ip_address |-> None, is_staff |-> FALSE,
              debug |-> FALSE, ignore_reason |-> None, response |-> NoResponse,
              late |-> FALSE, calls |-> {}]
Returned == [NoRequest EXCEPT !.pc = "returned"]

NoChain == [evaluated |-> FALSE, view |-> None, valid_nonce |-> FALSE,
            sig |-> CleanSignals, publisher |-> None, ratelimited |-> FALSE,
            reason |-> None]

\* The context of the last report built; runs counts the times it was built
\* with these arguments.
NoReport == [runs |-> 0, view |-> None, query |-> <<>>, ad_day |-> 0,
             names |-> <<>>, order |-> <<>>, context |-> <<>>, days |-> <<>>]

Init ==
    /\ req = [r \in Reqs |-> NoRequest]
    /\ nonces = [n \in Nonces |-> NoNonce]
    /\ impressions = [k \in ImpressionKeys |-> NoImpression]
    /\ rate = [ip \in ClientIPs |-> 0]
    /\ today = 0
    /\ events = <<>>
    /\ billed = [n \in Nonces |-> 0]
    /\ chain = NoChain
    /\ report = NoReport

\* No response is on its way out.  Return touches nothing shared and commutes
\* with every other step, so it is taken first: every other step waits for it.
NoneDone == \A q \in Reqs : req[q].pc # "done"

\* ----------------------------------------------------------- environment
\* issue: a fresh token, stored VALID for one (ad, type) pair.
Issue(n, ad, impression_type, publisher) ==
    /\ NoneDone
    /\ nonces[n].state = UNISSUED
    /\ \A m \in Nonces : m < n => nonces[m].state # UNISSUED
    /\ nonces' = [nonces EXCEPT ![n] =
                    [state |-> VALID, ad |-> ad,
                     impression_type |-> impression_type,
                     publisher |-> publisher, consumes |-> 0]]
    /\ UNCHANGED <<req, impressions, rate, today, events, billed, chain, report>>

\* Time passes beyond the lifetime of a nonce: the entry is evicted.
Expire(n) ==
    /\ NoneDone
    /\ nonces[n].state = VALID
    /\ nonces' = [nonces EXCEPT ![n] = [NoNonce EXCEPT !.state = EXPIRED]]
    /\ UNCHANGED <<req, impressions, rate, today, events, billed, chain, report>>

\* Time passes to the next calendar date.
NextDay ==
    /\ NoneDone
    /\ today < MaxDay
    /\ today' = today + 1
    /\ UNCHANGED <<req, nonces, impressions, rate, events, billed, chain, report>>

\* record: one more click event of the client within the window.
RateLimiterRecord(ip) ==
    /\ NoneDone
    /\ rate[ip] < MaxClicks
    /\ rate' = [rate EXCEPT ![ip] = @ + 1]
    /\ UNCHANGED <<req, nonces, impressions, today, events, billed, chain, report>>

\* The oldest click event of the client leaves the trailing window.
WindowSlide(ip) ==
    /\ NoneDone
    /\ rate[ip] > 0
    /\ rate' = [rate EXCEPT ![ip] = @ - 1]
    /\ UNCHANGED <<req, nonces, impressions, today, events, billed, chain, report>>

\* ---------------------------------------------------------- BaseProxyView.get
\* Mutant: the nonce is invalidated before the advertisement is looked up.
GetNotFound_after_nonce(r, view, advertisement_id, nonce) ==
    /\ req' = [req EXCEPT ![r] =
                 [NoRequest EXCEPT !.pc = "done", !.view = view,
                                   !.ad = advertisement_id, !.nonce = nonce,
                                   !.response = NotFound]]
    /\ nonces' = [nonces EXCEPT ![nonce] =
                    IF @.state = VALID
                    THEN [NoNonce EXCEPT !.state = CONSUMED, !.consumes = 1]
                    ELSE @]
    /\ UNCHANGED <<impressions, rate, today, events, billed, chain, report>>

\* Line 173 when no advertisement has the id: get_object_or_404 raises Http404
\* and nothing else of the view runs.
GetNotFound(r, view, advertisement_id, nonce) ==
    /\ req' = [req EXCEPT ![r] =
                 [NoRequest EXCEPT !.pc = "done", !.view = view,
                                   !.ad = advertisement_id, !.nonce = nonce,
                                   !.response = NotFound]]
    /\ UNCHANGED <<nonces, impressions, rate, today, events, billed, chain, report>>

\* The elif chain reaches is_click_ratelimited when no earlier rule matched.
reaches_ratelimit(view, valid_nonce, sig, publisher) ==
    /\ impression_type_of(view) = CLICKS
    /\ ignore_tracking_reason(view, valid_nonce, sig, publisher, FALSE) = None

\* Mutant: the nonce is invalidated before the filter chain has decided.
GetFound_consuming(r, view, advertisement_id, nonce, sig, is_debug) ==
    LET publisher == get_publisher(nonces, nonce)
        valid_nonce == is_valid_nonce(nonces, advertisement_id,
                                      impression_type_of(view), nonce)
        ratelimited == is_click_ratelimited(rate, sig.ip_address)
        ignore_reason == ignore_tracking_reason(view, valid_nonce, sig,
                                                publisher, ratelimited)
        billable == is_billed(ignore_reason)
    IN  /\ req' = [req EXCEPT ![r] =
               [pc |-> IF billable THEN "invalidate" ELSE "done",
                view |-> view, ad |-> advertisement_id, nonce |-> nonce,
                publisher |-> publisher, ip_address |-> sig.ip_address,
                is_staff |-> sig.is_staff,
                debug |-> IF billable THEN FALSE ELSE is_debug,
                ignore_reason |-> ignore_reason,
                response |-> IF billable THEN NoResponse
                             ELSE respond(view, advertisement_id, ignore_reason,
                                          sig.is_staff, is_debug),
                late |-> nonces[nonce].state = CONSUMED,
                calls |-> {"get_publisher", "is_valid_nonce"} \cup
                          (IF reaches_ratelimit(view, valid_nonce, sig, publisher)
                           THEN {"is_click_ratelimited"} ELSE {})]]
        /\ nonces' = invalidate_nonce(nonces, advertisement_id,
                                      impression_type_of(view), nonce)
        /\ UNCHANGED <<impressions, rate, today, events, billed, chain, report>>

\* Lines 174-179, and 188-196 when the impression is rejected.
GetFound(r, view, advertisement_id, nonce, sig, is_debug) ==
    LET publisher == get_publisher(nonces, nonce)
        valid_nonce == is_valid_nonce(nonces, advertisement_id,
                                      impression_type_of(view), nonce)
        ratelimited == is_click_ratelimited(rate, sig.ip_address)
        ignore_reason == ignore_tracking_reason(view, valid_nonce, sig,
                                                publisher, ratelimited)
        billable == is_billed(ignore_reason)
    IN  /\ req' = [req EXCEPT ![r] =
               [pc |-> IF billable THEN "invalidate" ELSE "done",
                view |-> view, ad |-> advertisement_id, nonce |-> nonce,
                publisher |-> publisher, ip_address |-> sig.ip_address,
                is_staff |-> sig.is_staff,
                debug |-> IF billable THEN FALSE ELSE is_debug,
                ignore_reason |-> ignore_reason,
                response |-> IF billable THEN NoResponse
                             ELSE respond(view, advertisement_id, ignore_reason,
                                          sig.is_staff, is_debug),
                late |-> nonces[nonce].state = CONSUMED,
                calls |-> {"get_publisher", "is_valid_nonce"} \cup
                          (IF reaches_ratelimit(view, valid_nonce, sig, publisher)
                           THEN {"is_click_ratelimited"} ELSE {})]]
        /\ UNCHANGED <<nonces, impressions, rate, today, events, billed, chain, report>>

\* Lines 173-179.
GetCheck(r, view, advertisement_id, nonce, sig, is_debug) ==
    /\ req[r].pc = "idle"
    /\ \A q \in Reqs : q < r => req[q].pc # "idle"
    /\ NoneDone
    /\ IF advertisement_id \notin Advertisements
       THEN GetNotFound(r, view, advertisement_id, nonce)
       ELSE GetFound(r, view, advertisement_id, nonce, sig, is_debug)

\* Mutant: the nonce is invalidated for the other impression type.
Invalidate_other_type(r) ==
    /\ req[r].pc = "invalidate"
    /\ NoneDone
    /\ nonces' = invalidate_nonce(nonces, req[r].ad,
                     IF impression_type_of(req[r].view) = VIEWS THEN CLICKS ELSE VIEWS,
                     req[r].nonce)
    /\ req' = [req EXCEPT ![r].pc = "track",
                          ![r].calls = @ \cup {"invalidate_nonce"}]
    /\ UNCHANGED <<impressions, rate, today, events, billed, chain, report>>

\* Mutant: line 183 is missing, the impression is recorded straight away.
Invalidate_skipped(r) ==
    /\ req[r].pc = "invalidate"
    /\ NoneDone
    /\ req' = [req EXCEPT ![r].pc = "track"]
    /\ UNCHANGED <<nonces, impressions, rate, today, events, billed, chain, report>>

\* Line 183.
Invalidate(r) ==
    /\ req[r].pc = "invalidate"
    /\ NoneDone
    /\ nonces' = invalidate_nonce(nonces, req[r].ad,
                                  impression_type_of(req[r].view), req[r].nonce)
    /\ req' = [req EXCEPT ![r].pc = "track",
                          ![r].calls = @ \cup {"invalidate_nonce"}]
    /\ UNCHANGED <<impressions, rate, today, events, billed, chain, report>>

\* Lines 184-196.
Track(r, is_debug) ==
    /\ req[r].pc = "track"
    /\ NoneDone
    /\ impressions' = track_impression(impressions, req[r].ad,
                          impression_type_of(req[r].view), req[r].publisher, today)
    /\ billed' = [billed EXCEPT ![req[r].nonce] = @ + 1]
    /\ req' = [req EXCEPT ![r].pc = "done",
                          ![r].calls = @ \cup {"track_impression"},
                          ![r].debug = is_debug,
                          ![r].response = respond(req[r].view, req[r].ad,
                                              req[r].ignore_reason,
                                              req[r].is_staff, is_debug)]
    /\ UNCHANGED <<nonces, rate, today, events, chain, report>>

\* Line 196: the response leaves; nothing of the request is kept.
Return(r) ==
    /\ req[r].pc = "done"
    /\ req' = [req EXCEPT ![r] = Returned]
    /\ UNCHANGED <<nonces, impressions, rate, today, events, billed, chain, report>>

\* The steps of the requests whose signals are among cases.
Requests(cases) ==
    \/ \E r \in Reqs, view \in ProxyViews, a \in AdIds, n \in Nonces,
          sig \in cases, dbg \in BOOLEAN : GetCheck(r, view, a, n, sig, dbg)
    \/ \E r \in Reqs : Invalidate(r)
    \/ \E r \in Reqs, dbg \in BOOLEAN : Track(r, dbg)
    \/ \E r \in Reqs : Return(r)

Issues ==
    \E n \in Nonces, c \in IssueCases, t \in ImpressionTypes :
        Issue(n, c.ad, t, c.publisher)

\* Concurrent requests while nonces are issued and expire and the days pass.
Next ==
    \/ Issues
    \/ \E n \in Nonces : Expire(n)
    \/ NextDay
    \/ Requests(SignalCases)

Spec == Init /\ [][Next]_vars

\* One request after the other, of two clients, while nonces are issued and
\* the click events of the clients come and go.
OneAtATime ==
    \A q \in Reqs : req[q].pc \in {"invalidate", "track", "done"}
                     => \A p \in Reqs \ {q} : req[p].pc \in {"idle", "returned"}

NextRate ==
    \/ Issues
    \/ \E ip \in ClientIPs \ INTERNAL_IPS : RateLimiterRecord(ip)
    \/ \E ip \in ClientIPs \ INTERNAL_IPS : WindowSlide(ip)
    \/ Requests(SignalCasesRate) /\ OneAtATime'

SpecRate == Init /\ [][NextRate]_vars

\* ------------------------------------------------------ retried requests
\* Line 196, keeping the decision as history: which nonce the request
\* presented to which view, and the reason it got.
Retire(r) ==
    /\ req[r].pc = "done"
    /\ req' = [req EXCEPT ![r] =
                 [Returned EXCEPT !.pc = "retired", !.view = req[r].view,
                                  !.ad = req[r].ad, !.nonce = req[r].nonce,
                                  !.ignore_reason = req[r].ignore_reason]]
    /\ UNCHANGED <<nonces, impressions, rate, today, events, billed, chain, report>>

\* A request starts when the earlier ones have returned.
Sequential ==
    \A q \in Reqs : req[q].pc \in {"invalidate", "track", "done"}
                     => \A p \in Reqs \ {q} : req[p].pc \in {"idle", "retired"}

\* One request after the other on existing advertisements, the later ones
\* retrying the nonces of the earlier ones, while nonces are issued and expire.
NextRetry ==
    \/ Issues
    \/ \E n \in Nonces : Expire(n)
    \/ /\ \E r \in Reqs, view \in ProxyViews, a \in Advertisements, n \in Nonces,
              sig \in SignalCasesRetry : GetCheck(r, view, a, n, sig, FALSE)
       /\ Sequential'
    \/ \E r \in Reqs : Invalidate(r)
    \/ \E r \in Reqs : Track(r, FALSE)
    \/ \E r \in Reqs : Retire(r)

SpecRetry == Init /\ [][NextRetry]_vars

\* ----------------------------------------------------- storage unavailable
\* get has no try/except: an exception of a collaborator leaves the view and
\* the request ends in a server error.
ServerError == [status |-> 500, content |-> None, location |-> None,
                reason_header |-> NoHeader]

\* The nonce store is unavailable at lines 174 and 116.  The lookup raises, or
\* it misses without an error and the nonce is taken for a nonexistent one.
GetCheckUnavailable(r, view, advertisement_id, nonce, sig, raises) ==
    LET ignore_reason == ignore_tracking_reason(view, FALSE, sig, None, FALSE)
    IN  /\ req[r].pc = "idle"
        /\ \A q \in Reqs : q < r => req[q].pc # "idle"
        /\ NoneDone
        /\ req' = [req EXCEPT ![r] =
               [pc |-> "done",
                view |-> view, ad |-> advertisement_id, nonce |-> nonce,
                publisher |-> None, ip_address |-> sig.ip_address,
                is_staff |-> sig.is_staff, debug |-> FALSE,
                ignore_reason |-> IF raises THEN None ELSE ignore_reason,
                response |-> IF raises THEN ServerError
                             ELSE respond(view, advertisement_id, ignore_reason,
                                          sig.is_staff, FALSE),
                late |-> nonces[nonce].state = CONSUMED,
                calls |-> {"get_publisher", "is_valid_nonce", "unavailable"}]]
        /\ UNCHANGED <<nonces, impressions, rate, today, events, billed, chain, report>>

\* The nonce store is unavailable at line 183.  invalidate_nonce raises, or it
\* returns without the transition; get does not look at what it returns.
InvalidateUnavailable(r, raises) ==
    /\ req[r].pc = "invalidate"
    /\ NoneDone
    /\ req' = [req EXCEPT ![r].pc = IF raises THEN "done" ELSE "track",
                          ![r].response = IF raises THEN ServerError ELSE @,
                          ![r].calls = @ \cup {"invalidate_nonce", "unavailable"}]
    /\ UNCHANGED <<nonces, impressions, rate, today, events, billed, chain, report>>

\* The recorder storage is unavailable at line 184: track_impression raises
\* and nothing is written.
TrackUnavailable(r) ==
    /\ req[r].pc = "track"
    /\ NoneDone
    /\ req' = [req EXCEPT ![r].pc = "done",
                          ![r].response = ServerError,
                          ![r].calls = @ \cup {"unavailable"}]
    /\ UNCHANGED <<nonces, impressions, rate, today, events, billed, chain, report>>

\* One request after the other, each call of the nonce store and of the
\* recorder either working or finding its storage unavailable.
NextFail ==
    \/ Issues
    \/ /\ \E r \in Reqs, view \in ProxyViews, a \in Advertisements,
              n \in Nonces, sig \in SignalCasesRetry :
                GetCheck(r, view, a, n, sig, FALSE)
       /\ OneAtATime'
    \/ /\ \E r \in Reqs, view \in ProxyViews, a \in Advertisements,
              n \in Nonces, sig \in SignalCasesRetry, raises \in BOOLEAN :
                GetCheckUnavailable(r, view, a, n, sig, raises)
       /\ OneAtATime'
    \/ \E r \in Reqs : Invalidate(r)
    \/ \E r \in Reqs, raises \in BOOLEAN : InvalidateUnavailable(r, raises)
    \/ \E r \in Reqs : Track(r, FALSE)
    \/ \E r \in Reqs : TrackUnavailable(r)
    \/ \E r \in Reqs : Return(r)

SpecFail == Init /\ [][NextFail]_vars

\* ------------------------------------------------- the filter chain alone
\* One evaluation of ignore_tracking_reason on any combination of its inputs.
ChainEval(view, valid_nonce, sig, publisher, ratelimited) ==
    /\ ~chain.evaluated
    /\ chain' = [evaluated |-> TRUE, view |-> view, valid_nonce |-> valid_nonce,
                 sig |-> sig, publisher |-> publisher,
                 ratelimited |-> ratelimited,
                 reason |-> ignore_tracking_reason(view, valid_nonce, sig,
                                                   publisher, ratelimited)]
    /\ UNCHANGED <<req, nonces, impressions, rate, today, events, billed, report>>

NextChain ==
    \E view \in ProxyViews, valid_nonce \in BOOLEAN, sig \in AllSignals,
       publisher \in Publishers \cup {None}, ratelimited \in BOOLEAN :
         ChainEval(view, valid_nonce, sig, publisher, ratelimited)

SpecChain == Init /\ [][NextChain]_vars

\* ------------------------------------------------------- report date context
DEFAULT_REPORT_DAYS == 30

\* Calendar dates are counted in days from 2019-01-01, the date 0 of Dates.
EpochYear == 2019
is_leap(y) == y % 4 = 0 /\ (y % 100 # 0 \/ y % 400 = 0)
DaysInYear(y) == IF is_leap(y) THEN 366 ELSE 365
DaysInMonth(y, m) ==
    IF m = 2 THEN (IF is_leap(y) THEN 29 ELSE 28)
    ELSE IF m \in {4, 6, 9, 11} THEN 30 ELSE 31

RECURSIVE DaysBeforeYear(_)
DaysBeforeYear(y) ==
    IF y = EpochYear THEN 0
    ELSE IF y > EpochYear THEN DaysBeforeYear(y - 1) + DaysInYear(y - 1)
    ELSE DaysBeforeYear(y + 1) - DaysInYear(y)

RECURSIVE DaysBeforeMonth(_, _)
DaysBeforeMonth(y, m) ==
    IF m = 1 THEN 0 ELSE DaysBeforeMonth(y, m - 1) + DaysInMonth(y, m - 1)

\* A query value is the sequence of the numeric fields that "-" separates in
\* it: "2019-01-02" is <<2019, 1, 2>>, "2019-01" is <<2019, 1>>, a value with
\* no such reading ("", "junk") is <<>>.  strptime("%Y-%m-%d") gives a date for
\* three fields that name a day of the calendar and raises ValueError otherwise.
strptime(date_str) ==
    IF /\ Len(date_str) = 3
       /\ date_str[1] \in 1..9999
       /\ date_str[2] \in 1..12
       /\ date_str[3] \in 1..DaysInMonth(date_str[1], date_str[2])
    THEN [raised |-> None,
          value |-> DaysBeforeYear(date_str[1])
                    + DaysBeforeMonth(date_str[1], date_str[2])
                    + date_str[3] - 1]
    ELSE [raised |-> "ValueError", value |-> 0]

\* An optional date: <<>> is Python's None, <<d>> the date d.
NoDate == <<>>

parse_date_string(date_str) ==
    LET parsed == strptime(date_str)
    IN  IF parsed.raised = None THEN <<parsed.value>> ELSE NoDate

get_ad_day == today

get_start_date(GET) ==
    IF /\ "start_date" \in DOMAIN GET
       /\ parse_date_string(GET["start_date"]) # NoDate
    THEN parse_date_string(GET["start_date"])[1]
    ELSE get_ad_day - DEFAULT_REPORT_DAYS

get_end_date(GET) ==
    IF /\ "end_date" \in DOMAIN GET
       /\ parse_date_string(GET["end_date"]) # NoDate
    THEN parse_date_string(GET["end_date"])
    ELSE NoDate

campaign_type_of(GET) ==
    IF "campaign_type" \in DOMAIN GET THEN GET["campaign_type"] ELSE ""

base_context_keep_end(GET) ==
    [start_date |-> get_start_date(GET),
     end_date |-> get_end_date(GET),
     campaign_type |-> campaign_type_of(GET)]

\* BaseReportView.get_context_data
base_context(GET) ==
    LET start_date == get_start_date(GET)
        end_date == get_end_date(GET)
    IN  [start_date |-> start_date,
         end_date |-> IF end_date # NoDate /\ end_date[1] < start_date
                      THEN NoDate ELSE end_date,
         campaign_type |-> campaign_type_of(GET)]

\* The values a date parameter takes: malformed ones, days that are not of
\* the calendar, and dates before, in and after Dates.
DateStrings == { <<>>, <<2019, 1>>, <<2019, 13, 1>>, <<2019, 2, 29>>,
                 <<2018, 12, 31>>, <<2019, 1, 1>>, <<2019, 1, 2>>,
                 <<2020, 2, 29>> }

DateQueries ==
    UNION { [keys -> DateStrings] : keys \in SUBSET {"start_date", "end_date"} }

BaseReportView == "BaseReportView"

\* One GET of a report that builds the base context only.
BaseReport(GET) ==
    /\ report.runs = 0
    /\ report' = [NoReport EXCEPT !.runs = 1, !.view = BaseReportView,
                                  !.query = GET, !.ad_day = get_ad_day,
                                  !.context = base_context(GET)]
    /\ UNCHANGED <<req, nonces, impressions, rate, today, events, billed, chain>>

NextDates ==
    \/ NextDay
    \/ \E GET \in DateQueries : BaseReport(GET)

SpecDates == Init /\ [][NextDates]_vars

\* ------------------------------------------------------- binary64 numbers
\* Money is counted in mills (1/1000 of the currency unit), so a Decimal is
\* the integer number of its mills.  A float is an IEEE 754 binary64 number
\* m * 2^e with the bits of m least significant first (53 of them unless it is
\* zero).
Mantissa == 53
MillsPerUnit == 1000

\* The bits of a natural number, least significant first.
BitLen(n) == CHOOSE k \in 0..30 : n < 2^k /\ (k = 0 \/ n >= 2^(k - 1))
Bits(n) == [i \in 1..BitLen(n) |-> (n \div 2^(i - 1)) % 2]

ShiftLeft(b, d) == [i \in 1..(Len(b) + d) |-> IF i <= d THEN 0 ELSE b[i - d]]

Trim(b) ==
    LET ones == {i \in 1..Len(b) : b[i] = 1}
    IN  IF ones = {} THEN <<>>
        ELSE SubSeq(b, 1, CHOOSE i \in ones : \A j \in ones : j <= i)

\* Binary addition of two n-bit numbers with carry c, by halves.
RECURSIVE AddN(_, _, _, _)
AddN(a, b, c, n) ==
    IF n = 0 THEN [s |-> <<>>, c |-> c]
    ELSE IF n = 1 THEN [s |-> <<(a[1] + b[1] + c) % 2>>,
                        c |-> (a[1] + b[1] + c) \div 2]
    ELSE LET h == n \div 2
             lo == AddN(SubSeq(a, 1, h), SubSeq(b, 1, h), c, h)
         IN  IF lo.c = 0
             THEN LET hi == AddN(SubSeq(a, h + 1, n), SubSeq(b, h + 1, n), 0, n - h)
                  IN  [s |-> lo.s \o hi.s, c |-> hi.c]
             ELSE LET hi == AddN(SubSeq(a, h + 1, n), SubSeq(b, h + 1, n), 1, n - h)
                  IN  [s |-> lo.s \o hi.s, c |-> hi.c]

AddBits(a, b) ==
    LET n == IF Len(a) > Len(b) THEN Len(a) ELSE Len(b)
        pad(x) == [i \in 1..n |-> IF i <= Len(x) THEN x[i] ELSE 0]
        r == AddN(pad(a), pad(b), 0, n)
    IN  IF r.c = 1 THEN r.s \o <<1>> ELSE r.s

\* Long division of the bits b by d, most significant half first, given the
\* remainder brought in.
RECURSIVE DivN(_, _, _)
DivN(b, d, rem) ==
    IF Len(b) = 0 THEN [q |-> <<>>, r |-> rem]
    ELSE IF Len(b) = 1 THEN [q |-> <<(2 * rem + b[1]) \div d>>,
                             r |-> (2 * rem + b[1]) % d]
    ELSE LET h == Len(b) \div 2
             hi == DivN(SubSeq(b, h + 1, Len(b)), d, rem)
         IN  IF hi.r < 0 THEN hi
             ELSE LET lo == DivN(SubSeq(b, 1, h), d, hi.r)
                  IN  [q |-> lo.q \o hi.q, r |-> lo.r]

\* 0.0, and the int 0 a defaultdict(int) starts from.
FloatZero == [m |-> <<>>, e |-> 0]

Normal(m, e) ==
    IF Len(m) > Mantissa THEN [m |-> Tail(m), e |-> e + 1] ELSE [m |-> m, e |-> e]

\* float(Decimal): the binary64 number nearest to d / 1000, ties to even.
float(d) ==
    IF d = 0 THEN FloatZero
    ELSE LET b == Bits(d)
             s0 == (Mantissa + BitLen(MillsPerUnit)) - Len(b)
             quot(s) == LET dv == DivN(ShiftLeft(b, s), MillsPerUnit, 0)
                        IN  [q |-> Trim(dv.q), r |-> dv.r]
             t0 == quot(s0)
             s == IF Len(t0.q) > Mantissa THEN s0 - 1 ELSE s0
             t == IF s = s0 THEN t0 ELSE quot(s)
             up == \/ 2 * t.r > MillsPerUnit
                   \/ 2 * t.r = MillsPerUnit /\ t.q[1] = 1
         IN  Normal(IF up THEN AddBits(t.q, <<1>>) ELSE t.q, 0 - s)

\* float(d) of every cost a daily row can hold, computed once: a row sums at
\* most MaxRecorded impressions of at most the highest rate.
MaxRate ==
    CHOOSE x \in {Advertisement[a].cpc : a \in Advertisements} :
        \A a \in Advertisements : /\ Advertisement[a].cpc <= x
                                  /\ Advertisement[a].cpm \div 1000 <= x
FloatOf == [d \in 0..(MaxRecorded * MaxRate) |-> float(d)]

\* x + y of two floats, rounded to nearest, ties to even.
float_add(x, y) ==
    IF x = FloatZero THEN y
    ELSE IF y = FloatZero THEN x
    ELSE LET e == IF x.e < y.e THEN x.e ELSE y.e
             S == AddBits(ShiftLeft(x.m, x.e - e), ShiftLeft(y.m, y.e - e))
             drop == Len(S) - Mantissa
         IN  IF drop = 0 THEN [m |-> S, e |-> e]
             ELSE LET q == SubSeq(S, drop + 1, Len(S))
                      up == /\ S[drop] = 1
                            /\ \/ \E i \in 1..(drop - 1) : S[i] = 1
                               \/ q[1] = 1
                  IN  Normal(IF up THEN AddBits(q, <<1>>) ELSE q, e + drop)

\* -------------------------------------------------------- aggregate reports
AllPublisherReportView == "AllPublisherReportView"
AllAdvertiserReportView == "AllAdvertiserReportView"
ReportViews == {AllPublisherReportView, AllAdvertiserReportView}

\* flight__campaign__advertiser and flight__campaign__campaign_type of an ad.
Advertisers == {"advX", "advY"}
AdvertiserOf == [a \in Advertisements |-> IF a = "ad1" THEN "advX" ELSE "advY"]
CAMPAIGN_TYPES == {"paid", "community", "house"}
CampaignTypeOf == [a \in Advertisements |-> IF a = "ad1" THEN "paid" ELSE "house"]

Entities(view) ==
    IF view = AllPublisherReportView THEN Publishers ELSE Advertisers

\* The entity of the view that an ImpressionRecord row belongs to.
entity_of(view, key) ==
    IF view = AllPublisherReportView THEN key[2] ELSE AdvertiserOf[key[1]]

\* The ImpressionRecord rows that exist.
StoredRows == {k \in ImpressionKeys : impressions[k] # NoImpression}

in_range(date, start_date, end_date) ==
    /\ date >= start_date
    /\ end_date = NoDate \/ date <= end_date[1]

RECURSIVE SumField(_, _)
SumField(rows, field) ==
    IF rows = {} THEN 0
    ELSE LET k == CHOOSE k \in rows : TRUE
         IN  impressions[k][field] + SumField(rows \ {k}, field)

RECURSIVE SortDates(_)
SortDates(dates) ==
    IF dates = {} THEN <<>>
    ELSE LET d == CHOOSE d \in dates : \A e \in dates : d <= e
         IN  <<d>> \o SortDates(dates \ {d})

\* A ratio num / den; CTR is in percent, ECPM in mills per view.
calculate_ctr(clicks, views) ==
    IF views = 0 THEN [num |-> 0, den |-> 1] ELSE [num |-> 100 * clicks, den |-> views]

calculate_ecpm(cost, views) ==
    IF views = 0 THEN [num |-> 0, den |-> 1] ELSE [num |-> cost, den |-> views]

\* The daily report of one entity: a row for each date of the range on which
\* the entity has a record, and the totals of the rows.
daily_reports(view, entity, start_date, end_date) ==
    LET rows == {k \in StoredRows : /\ entity_of(view, k) = entity
                                    /\ in_range(k[3], start_date, end_date)}
        on(d) == {k \in rows : k[3] = d}
        dates == SortDates({k[3] : k \in rows})
    IN  [days |-> [i \in 1..Len(dates) |->
                     [date |-> dates[i],
                      views |-> SumField(on(dates[i]), "views"),
                      clicks |-> SumField(on(dates[i]), "clicks"),
                      cost |-> SumField(on(dates[i]), "cost"),
                      ctr |-> calculate_ctr(SumField(on(dates[i]), "clicks"),
                                            SumField(on(dates[i]), "views"))]],
         total |-> [views |-> SumField(rows, "views"),
                    clicks |-> SumField(rows, "clicks"),
                    cost |-> SumField(rows, "cost")]]

\* date.strftime("%Y-%m-%d"), as the fields of the text.
strftime(date) ==
    LET y == CHOOSE y \in (EpochYear - 1)..(EpochYear + 1) :
                 /\ DaysBeforeYear(y) <= date
                 /\ date < DaysBeforeYear(y) + DaysInYear(y)
        m == CHOOSE m \in 1..12 :
                 /\ DaysBeforeYear(y) + DaysBeforeMonth(y, m) <= date
                 /\ date < DaysBeforeYear(y) + DaysBeforeMonth(y, m)
                           + DaysInMonth(y, m)
    IN  <<y, m, date - DaysBeforeYear(y) - DaysBeforeMonth(y, m) + 1>>

\* d[k] = v of a dict.
Put(d, k, v) == [x \in DOMAIN d \cup {k} |-> IF x = k THEN v ELSE d[x]]
EmptyDict == <<>>

\* collections.defaultdict(int) with the two breakdown dicts, lines 505-507.
NewDay == [date |-> <<>>, views |-> 0, clicks |-> 0, cost |-> FloatZero,
           ctr |-> 0, views_by |-> EmptyDict, clicks_by |-> EmptyDict]

\* The body of the inner loop, lines 504-519 (399-416).
MergeDay(days, name, day) ==
    LET old == IF day.date \in DOMAIN days THEN days[day.date] ELSE NewDay
        cost == FloatOf[day.cost]
    IN  Put(days, day.date,
            [date |-> strftime(day.date),
             views |-> old.views + day.views,
             clicks |-> old.clicks + day.clicks,
             views_by |-> Put(old.views_by, name, day.views),
             clicks_by |-> Put(old.clicks_by, name, day.clicks),
             cost |-> float_add(old.cost, cost),
             ctr |-> calculate_ctr(old.clicks + day.clicks,
                                   old.views + day.views)])

RECURSIVE MergeDays(_, _, _)
MergeDays(days, name, rows) ==
    IF rows = <<>> THEN days
    ELSE MergeDays(MergeDay(days, name, Head(rows)), name, Tail(rows))

RECURSIVE MergeReports(_, _, _, _)
MergeReports(days, entities, names, reports) ==
    IF entities = <<>> THEN days
    ELSE MergeReports(MergeDays(days, names[Head(entities)],
                                reports[Head(entities)].days),
                      Tail(entities), names, reports)

RECURSIVE SumTotal(_, _, _)
SumTotal(entities, reports, field) ==
    IF entities = <<>> THEN 0
    ELSE reports[Head(entities)].total[field]
         + SumTotal(Tail(entities), reports, field)

\* The entities of the queryset: those with a row in the date range; the
\* all-publishers view narrows the rows to a configured campaign type.
queryset(view, context) ==
    {entity_of(view, k) :
        k \in {k \in StoredRows :
                 /\ in_range(k[3], context.start_date, context.end_date)
                 /\ (/\ view = AllPublisherReportView
                     /\ context.campaign_type # ""
                     /\ context.campaign_type \in CAMPAIGN_TYPES)
                        => CampaignTypeOf[k[1]] = context.campaign_type}}

\* get_context_data of the two views: the context returned and the local
\* days of lines 503-519 (398-416), merged from days0.
aggregate(view, GET, names, order, days0) ==
    LET context == base_context(GET)
        reports == [e \in Entities(view) |->
                      daily_reports(view, e, context.start_date, context.end_date)]
        listed(e) == e \in queryset(view, context)
        has_views(e) == reports[e].total.views > 0
        entities_and_reports == SelectSeq(SelectSeq(order, listed), has_views)
        total_clicks == SumTotal(entities_and_reports, reports, "clicks")
        total_views == SumTotal(entities_and_reports, reports, "views")
        total_cost == SumTotal(entities_and_reports, reports, "cost")
    IN  [context |-> [start_date |-> context.start_date,
                      end_date |-> context.end_date,
                      campaign_type |-> context.campaign_type,
                      entities |-> entities_and_reports,
                      reports |-> reports,
                      total_clicks |-> total_clicks,
                      total_cost |-> total_cost,
                      total_views |-> total_views,
                      total_ctr |-> calculate_ctr(total_clicks, total_views),
                      total_ecpm |-> calculate_ecpm(total_cost, total_views)],
         days |-> MergeReports(days0, entities_and_reports, names, reports)]

Report_stale_days(view, GET, names, order) ==
    /\ LET out == aggregate(view, GET, names, order, report.days)
       IN  report' = [runs |-> IF <<view, GET, names, order>>
                                  = <<report.view, report.query, report.names,
                                      report.order>>
                               THEN report.runs + 1 ELSE 1,
                      view |-> view, query |-> GET, ad_day |-> get_ad_day,
                      names |-> names, order |-> order,
                      context |-> out.context, days |-> out.days]
    /\ UNCHANGED <<req, nonces, impressions, rate, today, events, billed, chain>>

\* One GET of an aggregate report.
Report(view, GET, names, order) ==
    /\ LET out == aggregate(view, GET, names, order, EmptyDict)
       IN  report' = [runs |-> IF <<view, GET, names, order>>
                                  = <<report.view, report.query, report.names,
                                      report.order>>
                               THEN report.runs + 1 ELSE 1,
                      view |-> view, query |-> GET, ad_day |-> get_ad_day,
                      names |-> names, order |-> order,
                      context |-> out.context, days |-> out.days]
    /\ UNCHANGED <<req, nonces, impressions, rate, today, events, billed, chain>>

\* The records of the accepted requests so far.
Recordings ==
    SumField(StoredRows, "views") + SumField(StoredRows, "clicks")

\* An accepted request of a publisher's visitor is recorded (line 184).
Record(ad, impression_type, publisher) ==
    /\ report.runs = 0
    /\ Recordings < MaxRecorded
    /\ impressions' = track_impression(impressions, ad, impression_type,
                                       publisher, today)
    /\ UNCHANGED <<req, nonces, rate, today, events, billed, chain, report>>

\* The query strings of the aggregate reports.
ReportQueries ==
    { <<>>,
      [start_date |-> <<2019, 1, 2>>],
      [end_date |-> <<2019, 1, 1>>],
      [campaign_type |-> "paid"],
      [campaign_type |-> "bogus"] }

\* The display names of the entities (two entities may share one) and the
\* orders in which the database returns the entities.
NameCases(view) ==
    { [e \in Entities(view) |-> e], [e \in Entities(view) |-> "Alpha"] }
OrderCases(view) ==
    {o \in [1..2 -> Entities(view)] : o[1] # o[2]}

NextReport ==
    \/ \E c \in {c \in IssueCases : c.publisher # None},
          impression_type \in ImpressionTypes :
            Record(c.ad, impression_type, c.publisher)
    \/ /\ report.runs = 0
       /\ NextDay
    \/ /\ report.runs = 0
       /\ \E view \in ReportViews, GET \in ReportQueries :
          \E names \in NameCases(view), order \in OrderCases(view) :
             Report(view, GET, names, order)
    \/ /\ report.runs = 1
       /\ Report(report.view, report.query, report.names, report.order)

SpecReport == Init /\ [][NextReport]_vars

\* ------------------------------------------- reports of one campaign type
\* A publisher shows the advertisements of campaigns of several types.
RecordCases == { [ad |-> "ad1", publisher |-> "pubA"],
                 [ad |-> "ad2", publisher |-> "pubA"],
                 [ad |-> "ad2", publisher |-> "pubB"] }

\* The query strings that name a configured campaign type.
CampaignQueries ==
    { [campaign_type |-> t] : t \in CAMPAIGN_TYPES }
    \cup { [campaign_type |-> t, start_date |-> <<2019, 1, 2>>] :
             t \in CAMPAIGN_TYPES }

NextCampaign ==
    \/ \E c \in RecordCases, impression_type \in ImpressionTypes :
          Record(c.ad, impression_type, c.publisher)
    \/ /\ report.runs = 0
       /\ NextDay
    \/ /\ report.runs = 0
       /\ \E GET \in CampaignQueries :
          \E names \in NameCases(AllPublisherReportView),
             order \in OrderCases(AllPublisherReportView) :
               Report(AllPublisherReportView, GET, names, order)

SpecCampaign == Init /\ [][NextCampaign]_vars

\* ======================================================================
\* Claims
\* ======================================================================

\* C1: for any nonce and any interleaving of concurrent requests presenting
\* it, at most one of them is billed: the impressions recorded for one nonce
\* never exceed 1.
C1_AtMostOneBilledPerNonce == \A n \in Nonces : billed[n] <= 1

\* C2: a request that arrives after its nonce was consumed is rejected with
\* "Old/Nonexistent nonce", whatever its other signals, and no step it takes
\* changes a views, clicks or cost counter or the nonce store.
C2_ReplayRejected ==
    [][\A r \in Reqs :
         (req'[r].late /\ req'[r] # req[r])
         => /\ req'[r].pc = "done"
            /\ req'[r].ignore_reason = "Old/Nonexistent nonce"
            /\ impressions' = impressions
            /\ nonces' = nonces]_vars

\* A replayed request has been answered after an impression was billed for
\* its nonce.
C2_Witness ==
    \E r \in Reqs : /\ req[r].pc = "done"
                    /\ req[r].late
                    /\ req[r].ignore_reason = "Old/Nonexistent nonce"
                    /\ billed[req[r].nonce] >= 1

\* Whether isValid holds of the nonce for some (advertisement, type) pair.
ValidForSomePair(n) ==
    \E ad \in Advertisements, t \in ImpressionTypes : is_valid_nonce(nonces, ad, t, n)

\* C3 as stated: an issued nonce is valid in every state before its first
\* successful consume, and invalid in every state after it.
C3_ValidUntilConsumed ==
    \A n \in Nonces :
        /\ (nonces[n].state # UNISSUED /\ nonces[n].consumes = 0) => ValidForSomePair(n)
        /\ nonces[n].consumes > 0 => ~ValidForSomePair(n)

\* C3 amended: an issued nonce is valid exactly while it is neither expired
\* nor consumed; it is consumed at most once; after a request has invalidated
\* it (line 183) it is not valid for that request's advertisement and type;
\* CONSUMED and EXPIRED entries never change again.
C3_ValidUntilConsumedOrExpired ==
    /\ [](\A n \in Nonces :
            /\ ValidForSomePair(n) <=> (/\ nonces[n].state \notin {UNISSUED, EXPIRED}
                                        /\ nonces[n].consumes = 0)
            /\ nonces[n].consumes <= 1
            /\ nonces[n].consumes = 1 <=> nonces[n].state = CONSUMED)
    /\ [](\A r \in Reqs :
            "invalidate_nonce" \in req[r].calls
            => ~is_valid_nonce(nonces, req[r].ad, impression_type_of(req[r].view),
                               req[r].nonce))
    /\ [][\A n \in Nonces :
            nonces[n].state \in {CONSUMED, EXPIRED} => nonces'[n] = nonces[n]]_vars

\* A request has invalidated its nonce, which is CONSUMED.
C3_Witness ==
    \E r \in Reqs : /\ "invalidate_nonce" \in req[r].calls
                    /\ nonces[req[r].nonce].state = CONSUMED
                    /\ nonces[req[r].nonce].consumes = 1

\* The rules of the filter chain, numbered in the fixed order, on one
\* evaluation c of the chain.
RuleMatches(i, c) ==
    CASE i = 1 -> ~c.valid_nonce
      [] i = 2 -> c.sig.ua.is_bot
      [] i = 3 -> c.sig.ip_address \in INTERNAL_IPS
      [] i = 4 -> c.sig.ua.os_other /\ c.sig.ua.browser_other
      [] i = 5 -> c.sig.is_staff
      [] i = 6 -> c.sig.ua.blacklisted
      [] i = 7 -> c.publisher = None
      [] i = 8 -> ~c.sig.geo_ok
      [] i = 9 -> c.view = AdClickProxyView /\ c.ratelimited

RuleReason == <<"Old/Nonexistent nonce", "Bot impression", "Internal IP",
                "Unrecognized user agent", "Staff impression",
                "Blacklisted impression", "Unknown publisher",
                "Invalid targeting impression", "Ratelimited impression">>

MatchingRules(c) == {i \in DOMAIN RuleReason : RuleMatches(i, c)}

\* C4: the chain returns the reason of the first rule that matches in the
\* fixed order, and no reason exactly when no rule matches.
C4_FirstMatchingRule ==
    chain.evaluated =>
        LET m == MatchingRules(chain) IN
        /\ (m = {} <=> chain.reason = None)
        /\ m # {} => \E i \in m : /\ \A k \in m : i <= k
                                  /\ chain.reason = RuleReason[i]

\* An invalid nonce with every later rule matching too.
C4_Witness ==
    /\ chain.evaluated
    /\ MatchingRules(chain) = DOMAIN RuleReason
    /\ chain.reason = "Old/Nonexistent nonce"

\* The requests that ran the view on an existing advertisement.
Served(r) == req[r].ad \in Advertisements

\* C5: the nonce is invalidated and the impression recorder is invoked if
\* and only if the filter chain returned no reason, and no step of a request
\* that has a rejection reason changes a counter or the nonce store.
C5_BilledIffNoReason ==
    /\ [](\A r \in Reqs :
            /\ req[r].pc \in {"invalidate", "track"} => req[r].ignore_reason = None
            /\ req[r].pc = "track" => "invalidate_nonce" \in req[r].calls
            /\ (req[r].pc = "done" /\ Served(r))
               => /\ req[r].ignore_reason = None
                     <=> {"invalidate_nonce", "track_impression"} \subseteq req[r].calls
                  /\ req[r].ignore_reason # None
                     => req[r].calls \cap {"invalidate_nonce", "track_impression"} = {})
    /\ [][\A r \in Reqs :
            (req'[r] # req[r] /\ req'[r].ignore_reason # None)
            => /\ impressions' = impressions
               /\ billed' = billed
               /\ nonces' = nonces]_vars

\* An accepted request has invalidated its nonce and recorded its impression.
C5_Witness ==
    \E r \in Reqs : /\ req[r].pc = "done"
                    /\ Served(r)
                    /\ req[r].ignore_reason = None
                    /\ {"invalidate_nonce", "track_impression"} \subseteq req[r].calls
                    /\ billed[req[r].nonce] = 1

\* C6: on an existing advertisement a VIEW request gets the 200 pixel and a
\* CLICK request the redirect to the advertisement's link, whatever the
\* decision.
C6_ResponseByType ==
    \A r \in Reqs :
        (req[r].pc = "done" /\ Served(r))
        => /\ req[r].view = AdViewProxyView
              => /\ req[r].response.status = 200
                 /\ req[r].response.content = "<svg><!-- View Proxy --></svg>"
                 /\ req[r].response.location = None
           /\ req[r].view = AdClickProxyView
              => /\ req[r].response.status = 302
                 /\ req[r].response.location = Advertisement[req[r].ad].link

\* A click rejected as a bot impression is redirected to the link.
C6_Witness ==
    \E r \in Reqs : /\ req[r].pc = "done"
                    /\ req[r].view = AdClickProxyView
                    /\ req[r].ignore_reason = "Bot impression"
                    /\ req[r].response.status = 302
                    /\ req[r].response.location = Advertisement[req[r].ad].link

\* C7: a request whose advertisement id does not resolve ends in not-found,
\* calls no collaborator (nonce, filter chain, rate limiter, recorder) and
\* changes nothing shared.
C7_UnknownAdNoSideEffect ==
    [][\A r \in Reqs :
         (req'[r] # req[r] /\ req'[r].ad \in AdIds \ Advertisements)
         => /\ req'[r].pc = "done"
            /\ req'[r].response = NotFound
            /\ req'[r].calls = {}
            /\ req'[r].ignore_reason = None
            /\ UNCHANGED <<nonces, impressions, rate, billed, events>>]_vars

\* A not-found response for a request that presented a nonce still VALID.
C7_Witness ==
    \E r \in Reqs : /\ req[r].pc = "done"
                    /\ req[r].ad = UnknownAd
                    /\ req[r].response = NotFound
                    /\ nonces[req[r].nonce].state = VALID

\* C8: every accepted CLICK request has dispatched the analytics event of
\* send_to_analytics (action: the success label, label: the slug, value:
\* cpc x 100 cents); accepted views and rejected requests dispatch none.
C8_AcceptedClickDispatches ==
    \A r \in Reqs :
        (req[r].pc = "done" /\ Served(r))
        => IF req[r].view = AdClickProxyView /\ req[r].ignore_reason = None
           THEN /\ events # <<>>
                /\ <<events[Len(events)]>> =
                     send_to_analytics(req[r].view, req[r].ad,
                                       success_message(req[r].view))
           ELSE TRUE

\* C9: the step that records an accepted request changes exactly the record
\* keyed by (advertisement, resolved publisher, current date): a view adds 1
\* to views and cpm/1000 to cost, a click adds 1 to clicks and cpc to cost;
\* no other step changes a record, and no counter or cost ever decreases.
C9_ExactlyOneRecord ==
    [][/\ \A r \in Reqs :
            (req[r].pc = "track" /\ req'[r].pc = "done")
            => LET key == <<req[r].ad, req[r].publisher, today>>
                   click == req[r].view = AdClickProxyView
               IN  /\ key \in ImpressionKeys
                   /\ \A k \in ImpressionKeys :
                        IF k = key
                        THEN /\ impressions'[k].views =
                                  impressions[k].views + (IF click THEN 0 ELSE 1)
                             /\ impressions'[k].clicks =
                                  impressions[k].clicks + (IF click THEN 1 ELSE 0)
                             /\ impressions'[k].cost =
                                  impressions[k].cost +
                                  (IF click THEN Advertisement[req[r].ad].cpc
                                   ELSE Advertisement[req[r].ad].cpm \div 1000)
                        ELSE impressions'[k] = impressions[k]
       /\ impressions' # impressions
          => \E r \in Reqs : /\ req[r].pc = "track"
                             /\ req'[r].pc = "done"
                             /\ req[r].ignore_reason = None
       /\ \A k \in ImpressionKeys :
            /\ impressions'[k].views >= impressions[k].views
            /\ impressions'[k].clicks >= impressions[k].clicks
            /\ impressions'[k].cost >= impressions[k].cost]_vars

\* An accepted click was recorded on the second day: one click at cpc.
C9_Witness ==
    /\ today = 1
    /\ impressions[<<"ad1", "pubA", 1>>] =
         [views |-> 0, clicks |-> 1, cost |-> Advertisement["ad1"].cpc]
    /\ \A k \in ImpressionKeys \ {<<"ad1", "pubA", 1>>} : impressions[k] = NoImpression
    /\ \E r \in Reqs : req[r].pc = "done" /\ req[r].ignore_reason = None

\* C10: a request is rejected with "Ratelimited impression" exactly when it
\* is a CLICK that no rule 1 to 8 rejects and the count of its client exceeds
\* the threshold; it is then answered at once and nothing is billed.
C10_RateLimitedClick ==
    [][\A r \in Reqs :
         (req[r].pc = "idle" /\ req'[r].pc # "idle" /\ req'[r].ad \in Advertisements)
         => /\ req'[r].ignore_reason = "Ratelimited impression"
               <=> /\ req'[r].view = AdClickProxyView
                   /\ "is_click_ratelimited" \in req'[r].calls
                   /\ rate[req'[r].ip_address] > ClickThreshold
            /\ req'[r].ignore_reason = "Ratelimited impression"
               => /\ req'[r].pc = "done"
                  /\ impressions' = impressions
                  /\ billed' = billed]_vars

\* A click of one client is rejected as rate limited while the other client
\* is under the threshold.
C10_Witness ==
    \E r \in Reqs : /\ req[r].pc = "done"
                    /\ req[r].view = AdClickProxyView
                    /\ req[r].ignore_reason = "Ratelimited impression"
                    /\ req[r].ip_address = "198.51.100.2"
                    /\ rate["198.51.100.2"] > ClickThreshold
                    /\ rate["198.51.100.1"] <= ClickThreshold
                    /\ billed[req[r].nonce] = 0

\* C11: the X-Adserver-Reason header is on the response of a request that ran
\* the view if and only if DEBUG/TESTING is set or the user is staff, and it
\* then carries the rejection reason, or the success label when accepted.
C11_HeaderIffDebugOrStaff ==
    \A r \in Reqs :
        (req[r].pc = "done" /\ Served(r))
        => /\ req[r].response.reason_header # NoHeader
              <=> (req[r].debug \/ req[r].is_staff)
           /\ req[r].response.reason_header # NoHeader
              => req[r].response.reason_header =
                   (IF req[r].ignore_reason # None THEN req[r].ignore_reason
                    ELSE IF req[r].view = AdClickProxyView THEN "Billed click"
                    ELSE "Billed view")

\* A staff request outside DEBUG/TESTING carries its rejection reason.
C11_Witness ==
    \E r \in Reqs : /\ req[r].pc = "done"
                    /\ Served(r)
                    /\ req[r].is_staff
                    /\ ~req[r].debug
                    /\ req[r].response.reason_header = "Staff impression"

\* C19: in every state a nonce for which an impression was recorded is no
\* longer VALID, and a request that is about to record or has recorded its
\* impression has called invalidate_nonce before.
C19_InvalidatedBeforeRecorded ==
    /\ \A n \in Nonces : billed[n] > 0 => nonces[n].state # VALID
    /\ \A r \in Reqs :
         (req[r].pc = "track" \/ "track_impression" \in req[r].calls)
         => /\ "invalidate_nonce" \in req[r].calls
            /\ nonces[req[r].nonce].state # VALID

\* A request is between its invalidation and its recording: the nonce is
\* CONSUMED and nothing is billed for it yet.
C19_Witness ==
    \E r \in Reqs : /\ req[r].pc = "track"
                    /\ nonces[req[r].nonce].state = CONSUMED
                    /\ billed[req[r].nonce] = 0

\* The accepted requests on nonce n that ran between requests r1 and r2.
AcceptedBetween(r1, r2, n) ==
    {q \in Reqs : /\ r1 < q /\ q < r2
                  /\ req[q].nonce = n
                  /\ req[q].pc \in {"done", "retired"}
                  /\ req[q].ignore_reason = None}

\* C17: a request rejected for a reason other than the nonce leaves the nonce
\* store unchanged and the nonce VALID; a later request to the same view with
\* the same nonce is rejected for the nonce only if the nonce expired or was
\* consumed by an accepted request in between, and when no rule matches it is
\* accepted and billed.
C17_RejectedKeepsNonce ==
    /\ [](\A r1, r2 \in Reqs :
            ( /\ r1 < r2
              /\ req[r1].pc = "retired"
              /\ req[r1].ignore_reason \notin {None, "Old/Nonexistent nonce"}
              /\ req[r2].pc \in {"done", "retired"}
              /\ req[r2].nonce = req[r1].nonce
              /\ req[r2].view = req[r1].view
              /\ req[r2].ad = req[r1].ad )
            => /\ req[r2].ignore_reason = "Old/Nonexistent nonce"
                  => \/ nonces[req[r1].nonce].state = EXPIRED
                     \/ AcceptedBetween(r1, r2, req[r1].nonce) # {}
               /\ req[r2].ignore_reason = None
                  => /\ billed[req[r1].nonce] >= 1
                     /\ nonces[req[r1].nonce].state # VALID)
    /\ [][\A r \in Reqs :
            ( /\ req[r].pc = "idle"
              /\ req'[r].pc = "done"
              /\ req'[r].ignore_reason \notin {None, "Old/Nonexistent nonce"} )
            => /\ nonces' = nonces
               /\ billed' = billed
               /\ nonces[req'[r].nonce].state = VALID]_vars

\* A bot request was rejected, and the retry of its nonce was billed.
C17_Witness ==
    \E r1, r2 \in Reqs :
        /\ r1 < r2
        /\ req[r1].pc = "retired"
        /\ req[r1].ignore_reason = "Bot impression"
        /\ req[r2].pc = "retired"
        /\ req[r2].nonce = req[r1].nonce
        /\ req[r2].view = req[r1].view
        /\ req[r2].ad = req[r1].ad
        /\ req[r2].ignore_reason = None
        /\ billed[req[r1].nonce] = 1

\* C16: a request during which the nonce store or the recorder storage was
\* unavailable records no impression, and with one request after the other
\* (a failing request and its retries) no nonce is billed more than once.
C16_FailClosed ==
    /\ \A r \in Reqs : "unavailable" \in req[r].calls
                       => "track_impression" \notin req[r].calls
    /\ \A n \in Nonces : billed[n] <= 1


\* A parameter that is there and names a day of the calendar.
WellFormed(GET, key) ==
    /\ key \in DOMAIN GET
    /\ Len(GET[key]) = 3
    /\ GET[key][2] \in 1..12
    /\ GET[key][3] \in 1..DaysInMonth(GET[key][1], GET[key][2])

\* C15: whatever the start_date and end_date parameters are (absent,
\* malformed or well-formed), the date context is built: a missing or
\* malformed start_date gives the ad day minus 30 days, a missing or malformed
\* end_date gives no end date, and the end date is either none or not
\* earlier than the start date.
C15_DateContext ==
    report.view = BaseReportView =>
        /\ ~WellFormed(report.query, "start_date")
              => report.context.start_date = report.ad_day - 30
        /\ ~WellFormed(report.query, "end_date")
              => report.context.end_date = NoDate
        /\ \/ report.context.end_date = NoDate
           \/ report.context.end_date[1] >= report.context.start_date

\* A well-formed end_date earlier than the start date was given and discarded.
C15_Witness ==
    /\ report.view = BaseReportView
    /\ WellFormed(report.query, "start_date")
    /\ WellFormed(report.query, "end_date")
    /\ report.query["start_date"] = <<2019, 1, 2>>
    /\ report.query["end_date"] = <<2019, 1, 1>>
    /\ report.context.start_date = 1
    /\ report.context.end_date = NoDate

\* An aggregate report was built; the records have not changed since.
Reported == report.view \in ReportViews

\* The rows of the entities the report is about (its queryset) in its date
\* range, and those of one date.
ReportRows ==
    {k \in StoredRows :
        /\ in_range(k[3], report.context.start_date, report.context.end_date)
        /\ entity_of(report.view, k) \in queryset(report.view, report.context)}

ReportRowsOn(date) == {k \in ReportRows : k[3] = date}

\* The rows of one date of the entities in the report's entity list.
ListedRowsOn(date) ==
    {k \in ReportRowsOn(date) :
        \E i \in DOMAIN report.context.entities :
            report.context.entities[i] = entity_of(report.view, k)}

RECURSIVE SumValues(_)
SumValues(d) ==
    IF DOMAIN d = {} THEN 0
    ELSE LET k == CHOOSE k \in DOMAIN d : TRUE
         IN  d[k] + SumValues([x \in DOMAIN d \ {k} |-> d[x]])

\* ratio = num / den x scale, 0 when den is 0.
IsRatio(ratio, num, den, scale) ==
    IF den = 0 THEN ratio.num = 0
    ELSE ratio.num * den = scale * num * ratio.den

C13_ExcludedStillCounted ==
    Reported =>
        /\ \A i \in DOMAIN report.context.entities :
              report.context.reports[report.context.entities[i]].total.views > 0
        /\ \A date \in DOMAIN report.days :
              /\ report.days[date].views = SumField(ReportRowsOn(date), "views")
              /\ report.days[date].clicks = SumField(ReportRowsOn(date), "clicks")

\* C12: for every date, the merged row's views, clicks and cost are the sums
\* of the values of the listed entities on that date, and its CTR is
\* clicks / views x 100 of the summed values (0 without views), whatever the
\* order of the entities.
C12_MergedRowIsSum ==
    Reported =>
        \A date \in DOMAIN report.days :
            /\ report.days[date].views = SumField(ListedRowsOn(date), "views")
            /\ report.days[date].clicks = SumField(ListedRowsOn(date), "clicks")
            /\ report.days[date].cost = float(SumField(ListedRowsOn(date), "cost"))
            /\ IsRatio(report.days[date].ctr,
                       SumField(ListedRowsOn(date), "clicks"),
                       SumField(ListedRowsOn(date), "views"), 100)

RECURSIVE SumDays(_, _)
SumDays(days, field) ==
    IF DOMAIN days = {} THEN 0
    ELSE LET d == CHOOSE d \in DOMAIN days : TRUE
         IN  days[d][field] + SumDays([x \in DOMAIN days \ {d} |-> days[x]], field)

RECURSIVE SumCost(_)
SumCost(days) ==
    IF DOMAIN days = {} THEN FloatZero
    ELSE LET d == CHOOSE d \in DOMAIN days : \A x \in DOMAIN days : x <= d
         IN  float_add(SumCost([x \in DOMAIN days \ {d} |-> days[x]]), days[d].cost)

\* C14: the grand totals are the sums of views, clicks and cost over all the
\* rows of the entity set in the date range, they are the sums of the merged
\* daily rows, and total CTR and ECPM are computed from them (0 without
\* views).
C14_GrandTotals ==
    Reported =>
        /\ report.context.total_views = SumField(ReportRows, "views")
        /\ report.context.total_clicks = SumField(ReportRows, "clicks")
        /\ report.context.total_cost = SumField(ReportRows, "cost")
        /\ report.context.total_views = SumDays(report.days, "views")
        /\ report.context.total_clicks = SumDays(report.days, "clicks")
        /\ float(report.context.total_cost) = SumCost(report.days)
        /\ IsRatio(report.context.total_ctr, report.context.total_clicks,
                   report.context.total_views, 100)
        /\ IsRatio(report.context.total_ecpm, report.context.total_cost,
                   report.context.total_views, 1)

\* C20: in every merged daily row the values of the per-entity views
\* breakdown sum to the row's views and those of the clicks breakdown to the
\* row's clicks, also when two listed entities share a display name.
C20_BreakdownSums ==
    Reported =>
        \A date \in DOMAIN report.days :
            /\ SumValues(report.days[date].views_by) = report.days[date].views
            /\ SumValues(report.days[date].clicks_by) = report.days[date].clicks

\* The rows of the report's date range that belong to a listed publisher and
\* to an advertisement whose campaign has the type asked for.
TypedRows ==
    {k \in StoredRows :
        /\ in_range(k[3], report.context.start_date, report.context.end_date)
        /\ \E i \in DOMAIN report.context.entities :
              report.context.entities[i] = entity_of(report.view, k)
        /\ CampaignTypeOf[k[1]] = report.context.campaign_type}

\* C21: in the all-publishers report with a configured campaign type as
\* filter, the per-publisher reports, the merged daily rows and the grand
\* totals count only the records of advertisements whose campaign has that
\* type.
C21_OnlyCampaignType ==
    (/\ report.view = AllPublisherReportView
     /\ report.context.campaign_type \in CAMPAIGN_TYPES)
    => /\ \A i \in DOMAIN report.context.entities :
            LET publisher == report.context.entities[i]
                rows == {k \in TypedRows : k[2] = publisher}
                total == report.context.reports[publisher].total
            IN  /\ total.views = SumField(rows, "views")
                /\ total.clicks = SumField(rows, "clicks")
                /\ total.cost = SumField(rows, "cost")
       /\ \A date \in DOMAIN report.days :
            LET rows == {k \in TypedRows : k[3] = date}
            IN  /\ report.days[date].views = SumField(rows, "views")
                /\ report.days[date].clicks = SumField(rows, "clicks")
       /\ report.context.total_views = SumField(TypedRows, "views")
       /\ report.context.total_clicks = SumField(TypedRows, "clicks")
       /\ report.context.total_cost = SumField(TypedRows, "cost")
====
